---- MODULE Spec2Model ----
(***************************************************************************)
(* wpdev: instance / container orchestration over a container engine.      *)
(*                                                                         *)
(* The engine (Docker daemon) is the only shared state.  Every operation   *)
(* of the program is a request handler that runs to completion; it is      *)
(* modelled as one action that performs all of the handler's engine calls. *)
(* A call the engine rejects is chosen per handler run (parameter f).      *)
(***************************************************************************)
EXTENDS Integers, Sequences, FiniteSets, TLC

VARIABLES engine,    \* container id -> what the engine holds for it
          networks,  \* names of the networks the engine has
          files,     \* what exists under custom_root: the root directory and
                     \* the instance directories (label l: l/instance.toml)
          last,      \* outcome of the handler that ran last
          prev       \* the successful Create that ran immediately before, if any

vars == <<engine, networks, files, last, prev>>

----------------------------------------------------------------------------
(* Program constants and the finite universe                               *)

NETWORK_NAME == "wp-network"

\* custom_root, the directory that holds one directory per instance
INSTANCES_ROOT == "instances"

\* the four containers of an instance, in the order Instance::new creates them
Roles == <<"mysql", "wordpress", "nginx", "adminer">>
RoleSet == {Roles[i] : i \in 1..Len(Roles)}

Labels == {"a", "b"}          \* instance labels (uuids)
MaxPort == 10
PortSet == (MaxPort - 1)..MaxPort   \* ports the OS may hand out

\* the id the engine assigns to the container created under name <label>-<role>
EngineId(l, r) == <<l, r>>
MemberIds == {EngineId(l, r) : l \in Labels, r \in RoleSet}
\* containers that were not created by this program
StrayNoNet == <<"x", "nonet">>     \* carries instance=a, sits on another network
StrayNoLabel == <<"x", "nolabel">> \* sits on wp-network, carries no instance label
\* sits on wp-network; the daemon's inspect answer for it carries no Config
StrayNoConfig == <<"x", "noconfig">>
ForeignIds == {StrayNoNet, StrayNoLabel, StrayNoConfig}
Ids == MemberIds \cup ForeignIds

Ops == {"Start", "Stop", "Restart", "Delete", "Inspect"}

\* the one daemon call that is rejected during a handler run, if any
NoFault == <<"none", <<"none", "none">> >>
Faults(calls, ids) == {NoFault} \cup {<<c, id>> : c \in calls, id \in ids}
MembersOf(l) == {EngineId(l, r) : r \in RoleSet}

Absent == [state |-> "absent", instance |-> "none", image |-> "none",
           nginx_port |-> <<>>, adminer_port |-> <<>>, network |-> "none",
           config |-> FALSE]

Exists(e, id) == e[id].state # "absent"

\* all enumerations (iteration orders) of a finite set
Orders(S) == {s \in [1..Cardinality(S) -> S] :
                \A i, j \in 1..Cardinality(S) : i # j => s[i] # s[j]}

EmptyMap == [x \in {} |-> 0]

\* a `let` binding: v is computed once and handed to F as a value
Bind(v, F(_)) == CHOOSE out \in {F(x) : x \in {v}} : TRUE
NoContainer == [container_id |-> <<"none", "none">>, container_image |-> "none",
                container_status |-> "none"]

----------------------------------------------------------------------------
(* The engine: effect of one daemon call on container id.  The call fails  *)
(* when the container is absent (404), when the daemon rejects it (f), or  *)
(* when a running container is removed without force (409).                *)

engine_call(e, id, call, f) ==
  LET c  == e[id]
      ok == /\ c.state # "absent"
            /\ f # <<call, id>>
            /\ (call = "remove" => c.state # "running")
      c2 == CASE call = "start"   -> [c EXCEPT !.state = "running"]
              [] call = "stop"    -> [c EXCEPT !.state = "exited"]
              [] call = "restart" -> [c EXCEPT !.state = "running"]
              [] call = "remove"  -> Absent
              [] OTHER            -> c
  IN [ok |-> ok, eng |-> IF ok THEN [e EXCEPT ![id] = c2] ELSE e]

\* issue the calls cs on container id one after the other; `?` returns at
\* the first call that fails
RECURSIVE issue(_, _, _, _, _)
issue(e, id, cs, f, log) ==
  IF cs = <<>> THEN [ok |-> TRUE, eng |-> e, calls |-> log]
  ELSE LET r == engine_call(e, id, Head(cs), f)
       IN IF r.ok
          THEN issue(r.eng, id, Tail(cs), f, Append(log, <<Head(cs), TRUE>>))
          ELSE [ok |-> FALSE, eng |-> e, calls |-> Append(log, <<Head(cs), FALSE>>)]

----------------------------------------------------------------------------
(* ContainerImage                                                          *)

ContainerImage_from_str(image) ==
  CASE image = "adminer"   -> "Adminer"
    [] image = "mysql"     -> "MySQL"
    [] image = "nginx"     -> "Nginx"
    [] image = "wordpress" -> "Wordpress"
    [] OTHER               -> "Unknown"

----------------------------------------------------------------------------
(* Container adapter, wpdev_core/src/docker/container.rs                   *)

\* InstanceContainer::get_status: only RUNNING and EXITED are told apart
container_get_status(state) ==
  CASE state = "running" -> "Running"
    [] state = "exited"  -> "Stopped"
    [] OTHER             -> "Unknown"

\* variant: restart is gated on the fetched status as in handle_instance
restart_if_running(container_status) ==
  IF container_status = "Running" THEN <<"restart">> ELSE <<>>

\* the Restart arm of handle_container: no test of container_status
restart_always(container_status) == <<"restart">>

\* variant: start is issued whatever the fetched status is
container_calls_unconditional_start(operation, container_status) ==
  CASE operation = "Start" -> <<"start">>
    [] operation = "Stop" ->
         IF container_status = "Running" THEN <<"stop">> ELSE <<>>
    [] operation = "Restart" -> restart_always(container_status)
    [] operation = "Delete" ->
         (IF container_status = "Running" THEN <<"stop">> ELSE <<>>) \o <<"remove">>
    [] OTHER -> <<>>

\* the daemon calls the match arm of `operation` issues for a container whose
\* status was read as container_status
container_calls(operation, container_status) ==
  CASE operation = "Start" ->
         IF container_status # "Running" THEN <<"start">> ELSE <<>>
    [] operation = "Stop" ->
         IF container_status = "Running" THEN <<"stop">> ELSE <<>>
    [] operation = "Restart" -> restart_always(container_status)
    [] operation = "Delete" ->
         (IF container_status = "Running" THEN <<"stop">> ELSE <<>>) \o <<"remove">>
    [] OTHER -> <<>>

\* the status put into the InstanceContainer that handle_container returns
container_returned_status(before, after) == before

\* InstanceContainer::get_status with its engine call: inspect_container(..)?
\* returns every engine error, the 404 of an unknown id included
container_inspect_status(e, container_id, f) ==
  IF ~Exists(e, container_id) \/ f = <<"inspect", container_id>>
  THEN [ok |-> FALSE, status |-> "none"]
  ELSE [ok |-> TRUE, status |-> container_get_status(e[container_id].state)]

handle_container(e, container_id, operation, f) ==
  IF ~Exists(e, container_id)
  THEN \* inspect_container fails with 404 and `?` returns the error
       [ok |-> FALSE, eng |-> e, calls |-> <<>>, fetched |-> "-",
        ret |-> NoContainer]
  ELSE IF ~e[container_id].config
  THEN \* Err("Container config not found"): the status that was fetched
       \* never reaches the match on the operation
       [ok |-> FALSE, eng |-> e, calls |-> <<>>, fetched |-> "-",
        ret |-> NoContainer]
  ELSE LET container_status == container_get_status(e[container_id].state)
           label == IF e[container_id].image = "none" THEN "Unknown"
                    ELSE e[container_id].image
           r == issue(e, container_id, container_calls(operation, container_status),
                      f, <<>>)
           after == IF Exists(r.eng, container_id)
                    THEN container_get_status(r.eng[container_id].state)
                    ELSE "NotFound"
       IN [ok |-> r.ok, eng |-> r.eng, calls |-> r.calls,
           fetched |-> container_status,
           ret |-> IF r.ok
                   THEN [container_id |-> container_id,
                         container_image |-> ContainerImage_from_str(label),
                         container_status |->
                            container_returned_status(container_status, after)]
                   ELSE NoContainer]

----------------------------------------------------------------------------
(* What `docker ps` returns: the existing containers in the daemon's order *)
(* (all of them, or only the running ones)                                 *)

LabelSeq == <<"a", "b">>
AllIdsSeq ==
  [i \in 1..(Len(LabelSeq) * Len(Roles)) |->
     EngineId(LabelSeq[((i - 1) \div Len(Roles)) + 1], Roles[((i - 1) % Len(Roles)) + 1])]
  \o <<StrayNoNet, StrayNoLabel, StrayNoConfig>>

InList(e, all, id) == Exists(e, id) /\ (all \/ e[id].state = "running")
docker_list(e, all) == SelectSeq(AllIdsSeq, LAMBDA id : InList(e, all, id))

\* an iteration order of a HashMap: the entries of the set S, taken in the
\* order that the permutation q gives to their positions
Canon(S) == SelectSeq(AllIdsSeq, LAMBDA id : id \in S)
HashOrder(S, q) ==
  LET c == Canon(S)
      n == Len(c)
  IN [k \in 1..n |->
        c[CHOOSE i \in 1..n : Cardinality({j \in 1..n : q[j] < q[i]}) = k - 1]]
Perms == Orders(1..Len(Roles))

----------------------------------------------------------------------------
(* Decimal strings: u32::to_string and str::parse::<u32>                   *)

RECURSIVE to_string(_)
to_string(n) == IF n < 10 THEN <<n>> ELSE Append(to_string(n \div 10), n % 10)

RECURSIVE parse_u32(_)
\* -1 stands for Err
parse_u32(s) ==
  IF Len(s) = 0 THEN -1
  ELSE IF Len(s) = 1 THEN s[1]
  ELSE parse_u32(SubSeq(s, 1, Len(s) - 1)) * 10 + s[Len(s)]

\* variant: only the last digit of the label is read
parse_port_last_digit(port_label) ==
  IF parse_u32(port_label) = -1 THEN 0 ELSE parse_u32(port_label) % 10

\* utils::parse_port: a missing or unparsable label gives 0
parse_port(port_label) ==
  IF parse_u32(port_label) = -1 THEN 0 ELSE parse_u32(port_label)

----------------------------------------------------------------------------
(* Instance manager, wpdev_core/src/docker/instance.rs                     *)

\* engine state string -> ContainerStatus, as Instance::list maps it
list_container_status(state) ==
  CASE state = "running"    -> "Running"
    [] state = "exited"     -> "Stopped"
    [] state = "paused"     -> "Paused"
    [] state = "dead"       -> "Dead"
    [] state = "restarting" -> "Restarting"
    [] OTHER                -> "Unknown"

\* variant: one running container is enough for Running
Instance_get_status_any(containers) ==
  LET any_running == \E id \in DOMAIN containers :
                        containers[id].container_status = "Running"
  IN IF any_running THEN "Running" ELSE "Stopped"

\* Instance::get_status
Instance_get_status(containers) ==
  LET all_running == \A id \in DOMAIN containers :
                        containers[id].container_status = "Running"
      any_running == \E id \in DOMAIN containers :
                        containers[id].container_status = "Running"
  IN IF all_running THEN "Running"
     ELSE IF any_running THEN "PartiallyRunning"
     ELSE "Stopped"

\* Instance::default: the instance as read back from instance.toml and labels
Instance_default(instance_label, c) ==
  [uuid |-> instance_label, status |-> "Unknown", containers |-> EmptyMap,
   nginx_port |-> parse_port(c.nginx_port),
   adminer_port |-> parse_port(c.adminer_port)]

\* variant: the network membership is not looked at
list_admits_label_only(c, network_name) ==
  /\ c.state # "absent"
  /\ c.instance # "none"

\* the test that admits a listed container into the instance named by its label
list_admits(c, network_name) ==
  /\ c.state # "absent"            \* inspect answered
  /\ c.network = network_name      \* networks.contains_key(network_name)
  /\ c.instance # "none"           \* labels.get("instance")

\* the inspect that Instance::list makes for a listed container: the Err arm
\* logs the error and goes on to the next container
list_inspect_ok(container_id, f) == f # <<"inspect", container_id>>

\* Instance::list: group the listed containers by their instance label
RECURSIVE Instance_list(_, _, _, _, _)
Instance_list(e, network_name, containers, f, acc) ==
  IF containers = <<>> THEN acc
  ELSE LET id   == Head(containers)
           c    == e[id]
           rest == Tail(containers)
       IN IF ~list_inspect_ok(id, f) \/ ~list_admits(c, network_name)
          THEN Instance_list(e, network_name, rest, f, acc)
          ELSE IF c.instance \notin files
          THEN \* Instance::default(..).await.unwrap() panics
               [acc EXCEPT !.panic = TRUE]
          ELSE LET old  == IF c.instance \in DOMAIN acc.instances
                           THEN acc.instances[c.instance]
                           ELSE Instance_default(c.instance, c)
                   item == [container_image |->
                              ContainerImage_from_str(c.image),
                            container_status |-> list_container_status(c.state)]
                   ids  == DOMAIN old.containers \cup {id}
                   new  == [old EXCEPT !.containers =
                              [x \in ids |-> IF x = id THEN item ELSE old.containers[x]]]
                   keys == DOMAIN acc.instances \cup {c.instance}
               IN Instance_list(e, network_name, rest, f,
                    [acc EXCEPT !.instances =
                       [u \in keys |-> IF u = c.instance THEN new ELSE acc.instances[u]]])

Instance_list_all(e, network_name, f) ==
  Instance_list(e, network_name, docker_list(e, TRUE), f,
                [panic |-> FALSE, instances |-> EmptyMap])

\* Instance::list_running: the daemon's default listing, running containers only
Instance_list_running(e, network_name, f) ==
  Instance_list(e, network_name, docker_list(e, FALSE), f,
                [panic |-> FALSE, instances |-> EmptyMap])

\* variant: inspecting a member also restarts it
inspect_arm_restarts == <<"inspect", "restart">>

\* the Inspect arm of handle_instance: docker.containers().get(id).inspect()
inspect_arm == <<"inspect">>

\* variant: delete removes without stopping first
instance_calls_remove_only(operation, current_container_status) ==
  CASE operation = "Start" ->
         IF current_container_status # "Running" THEN <<"start">> ELSE <<>>
    [] operation = "Stop" ->
         IF current_container_status = "Running" THEN <<"stop">> ELSE <<>>
    [] operation = "Restart" ->
         IF current_container_status = "Running" THEN <<"restart">> ELSE <<>>
    [] operation = "Delete" -> <<"remove">>
    [] OTHER -> <<"inspect">>

\* the daemon calls handle_instance issues for one member container
instance_calls(operation, current_container_status) ==
  CASE operation = "Start" ->
         IF current_container_status # "Running" THEN <<"start">> ELSE <<>>
    [] operation = "Stop" ->
         IF current_container_status = "Running" THEN <<"stop">> ELSE <<>>
    [] operation = "Restart" ->
         IF current_container_status = "Running" THEN <<"restart">> ELSE <<>>
    [] operation = "Delete" ->
         (IF current_container_status = "Running" THEN <<"stop">> ELSE <<>>)
           \o <<"remove">>
    [] OTHER -> inspect_arm

\* what the fan-out does when the call for one container has failed
instance_continues_after_failure == FALSE

\* the loop of handle_instance over instance.containers, in iteration order
RECURSIVE instance_loop(_, _, _, _, _, _)
instance_loop(e, order, containers, operation, f, acc) ==
  IF order = <<>> THEN [acc EXCEPT !.eng = e]
  ELSE LET id == Head(order)
           st == containers[id].container_status
       IN Bind(issue(e, id, instance_calls(operation, st), f, <<>>), LAMBDA r :
          Bind([acc EXCEPT !.calls[id] = r.calls,
                           !.fetched[id] = st,
                           !.ok = acc.ok /\ r.ok,
                           !.deleted = IF r.ok /\ operation = "Delete"
                                       THEN acc.deleted \cup {id} ELSE acc.deleted],
               LAMBDA a2 :
          IF r.ok \/ instance_continues_after_failure
          THEN instance_loop(r.eng, Tail(order), containers, operation, f, a2)
          ELSE [a2 EXCEPT !.eng = r.eng]))

LoopStart(e) == [ok |-> TRUE, eng |-> e, calls |-> [id \in Ids |-> <<>>],
                 fetched |-> [id \in Ids |-> "-"], deleted |-> {}]

\* variant: an unknown uuid is answered with success
instance_found_nothing(e) ==
  LoopStart(e) @@ [found |-> FALSE, panic |-> FALSE, ret |-> EmptyMap]

\* Err("Instance with UUID {} not found"): no container has been touched
instance_not_found(e) ==
  [LoopStart(e) EXCEPT !.ok = FALSE] @@ [found |-> FALSE, panic |-> FALSE,
                                         ret |-> EmptyMap]

handle_instance(e, network_name, instance_uuid, operation, f, q) ==
  Bind(Instance_list_all(e, network_name, f), LAMBDA L :
     IF L.panic
     THEN [LoopStart(e) EXCEPT !.ok = FALSE] @@ [found |-> FALSE, panic |-> TRUE,
                                                 ret |-> EmptyMap]
     ELSE IF instance_uuid \notin DOMAIN L.instances
     THEN instance_not_found(e)
     ELSE Bind(L.instances[instance_uuid], LAMBDA instance :
          Bind(instance_loop(e, HashOrder(DOMAIN instance.containers, q),
                             instance.containers, operation, f, LoopStart(e)),
               LAMBDA r :
          LET kept == [id \in DOMAIN instance.containers \ r.deleted |->
                         instance.containers[id]]
              out  == [instance EXCEPT !.containers = kept,
                                       !.status = Instance_get_status(kept)]
          IN r @@ [found |-> TRUE, panic |-> FALSE,
                   ret |-> IF r.ok THEN (instance_uuid :> out) ELSE EmptyMap])))

----------------------------------------------------------------------------
(* handle_all_instances, wpdev_core/src/docker/instance.rs                 *)

\* what the bulk loop does when handle_instance has failed for one instance
all_continues_after_failure == FALSE

RECURSIVE all_loop(_, _, _, _, _, _, _)
all_loop(e, network_name, uuids, operation, f, q, acc) ==
  IF uuids = <<>> THEN [acc EXCEPT !.eng = e]
  ELSE LET uuid == Head(uuids)
       IN Bind(handle_instance(e, network_name, uuid, operation, f, q), LAMBDA r :
          Bind({id \in Ids : r.fetched[id] # "-"}, LAMBDA mine :
          Bind([acc EXCEPT
                  !.ok = acc.ok /\ r.ok,
                  !.calls = [id \in Ids |-> IF id \in mine THEN r.calls[id]
                                            ELSE acc.calls[id]],
                  !.fetched = [id \in Ids |-> IF id \in mine THEN r.fetched[id]
                                              ELSE acc.fetched[id]],
                  !.visited = acc.visited \cup {uuid},
                  !.ret = IF r.ok THEN acc.ret @@ r.ret ELSE acc.ret],
               LAMBDA a2 :
          IF r.ok \/ all_continues_after_failure
          THEN all_loop(r.eng, network_name, Tail(uuids), operation, f, q, a2)
          ELSE [a2 EXCEPT !.eng = r.eng])))

handle_all_instances(e, network_name, operation, f, order, q) ==
  LET start == [ok |-> TRUE, eng |-> e, calls |-> [id \in Ids |-> <<>>],
                fetched |-> [id \in Ids |-> "-"], visited |-> {},
                ret |-> EmptyMap]
  IN Bind(all_loop(e, network_name, order, operation, f, q, start), LAMBDA r :
        [r EXCEPT !.ret = IF r.ok THEN r.ret ELSE EmptyMap])

----------------------------------------------------------------------------
(* handle_instance of wpdev_core/src/docker_service.rs                     *)

\* fetch_container_status: Some(status), or None when the daemon answers 404
fetch_container_status(e, container_id) ==
  IF ~Exists(e, container_id) THEN "None"
  ELSE CASE e[container_id].state = "running" -> "Running"
         [] e[container_id].state = "exited"  -> "Stopped"
         [] OTHER                             -> "Unknown"

\* variant: a stop also removes the container it has stopped
svc_calls_stop_removes(operation, current_container_status) ==
  CASE operation = "Start" ->
         IF current_container_status # "Running" THEN <<"start">> ELSE <<>>
    [] operation = "Stop" ->
         IF current_container_status = "Running" THEN <<"stop", "remove">> ELSE <<>>
    [] operation = "Restart" ->
         IF current_container_status = "Running" THEN <<"restart">> ELSE <<>>
    [] operation = "Delete" ->
         (IF current_container_status = "Running" THEN <<"stop">> ELSE <<>>)
           \o <<"remove">>
    [] OTHER -> <<"inspect">>

svc_calls(operation, current_container_status) ==
  CASE operation = "Start" ->
         IF current_container_status # "Running" THEN <<"start">> ELSE <<>>
    [] operation = "Stop" ->
         IF current_container_status = "Running" THEN <<"stop">> ELSE <<>>
    [] operation = "Restart" ->
         IF current_container_status = "Running" THEN <<"restart">> ELSE <<>>
    [] operation = "Delete" ->
         (IF current_container_status = "Running" THEN <<"stop">> ELSE <<>>)
           \o <<"remove">>
    [] OTHER -> <<"inspect">>

\* list_instances: the container ids of every instance, in listing order
svc_container_ids(e, network_name, uuid) ==
  SelectSeq(docker_list(e, TRUE),
            LAMBDA id : list_admits(e[id], network_name) /\ e[id].instance = uuid)

RECURSIVE svc_loop(_, _, _, _, _)
svc_loop(e, container_ids, operation, f, acc) ==
  IF container_ids = <<>> THEN [acc EXCEPT !.eng = e]
  ELSE LET id == Head(container_ids)
           st == fetch_container_status(e, id)
           r  == issue(e, id, svc_calls(operation, st), f, <<>>)
           updated == fetch_container_status(r.eng, id)
           a2 == [acc EXCEPT !.calls[id] = r.calls,
                             !.fetched[id] = st,
                             !.ok = r.ok,
                             !.statuses = IF r.ok
                                THEN (id :> (IF updated = "None" THEN "NotFound"
                                             ELSE updated)) @@ acc.statuses
                                ELSE acc.statuses]
       IN IF r.ok THEN svc_loop(r.eng, Tail(container_ids), operation, f, a2)
          ELSE [a2 EXCEPT !.eng = r.eng]

svc_handle_instance(e, network_name, instance_uuid, operation, f) ==
  LET ids == svc_container_ids(e, network_name, instance_uuid)
      start == LoopStart(e) @@ [statuses |-> EmptyMap]
  IN IF ids = <<>>
     THEN [start EXCEPT !.ok = FALSE] @@ [found |-> FALSE, ret |-> EmptyMap]
     ELSE LET r == svc_loop(e, ids, operation, f, start)
              first == e[ids[1]]
              out == [uuid |-> instance_uuid,
                      status |-> Instance_get_status(
                         [id \in DOMAIN r.statuses |->
                            [container_status |-> r.statuses[id]]]),
                      containers |-> [id \in DOMAIN r.statuses |->
                         [container_image |-> "none",
                          container_status |-> r.statuses[id]]],
                      nginx_port |-> parse_port(first.nginx_port),
                      adminer_port |-> parse_port(first.adminer_port)]
          IN r @@ [found |-> TRUE,
                   ret |-> IF r.ok THEN (instance_uuid :> out) ELSE EmptyMap]

----------------------------------------------------------------------------
(* Instance::new, wpdev_core/src/docker/instance.rs                        *)

\* variant: a label set of its own for the database container
create_labels_fresh(image, hashmap) ==
  IF image = "mysql"
  THEN [hashmap EXCEPT !.image = image, !.nginx_port = <<>>, !.adminer_port = <<>>]
  ELSE [hashmap EXCEPT !.image = image]

\* utils::create_labels: the instance's label set plus the image label
create_labels(image, hashmap) == [hashmap EXCEPT !.image = image]

\* InstanceContainer::get_status of instance.rs (None on 404)
InstanceContainer_get_status(e, container_id) ==
  IF ~Exists(e, container_id) THEN "None"
  ELSE list_container_status(e[container_id].state)

\* the same with its result: Ok(None) on 404, Err on any other engine error
instance_inspect_status(e, container_id, f) ==
  IF f = <<"inspect", container_id>> THEN [ok |-> FALSE, status |-> "none"]
  ELSE [ok |-> TRUE, status |-> InstanceContainer_get_status(e, container_id)]

\* the ContainerImage Instance::new records for a container type
container_type_image(container_type) ==
  CASE container_type = "mysql"     -> "MySQL"
    [] container_type = "wordpress" -> "Wordpress"
    [] container_type = "nginx"     -> "Nginx"
    [] container_type = "adminer"   -> "Adminer"
    [] OTHER                        -> "Unknown"

\* variant: a failed container is skipped and the loop goes on
new_swallows(ok) == FALSE

\* the `?` after InstanceContainer::new: a failed creation ends Instance::new
new_propagates(ok) == ~ok

\* the loop over containers_to_create; `?` returns at the first failure.
\* run: the containers another client of the daemon starts right after
\* their creation, before their status is queried
RECURSIVE create_loop(_, _, _, _, _, _, _)
create_loop(e, instance_label, labels, i, run, f, acc) ==
  IF i > Len(Roles) THEN [acc EXCEPT !.eng = e]
  ELSE LET role == Roles[i]
           id   == EngineId(instance_label, role)
           created == ~Exists(e, id) /\ f # <<"create", id>>
           c    == create_labels(role, labels)
                     @@ [state |-> IF role \in run THEN "running" ELSE "created",
                         network |-> NETWORK_NAME, config |-> TRUE]
           e2   == IF created THEN [e EXCEPT ![id] = c] ELSE e
           st   == InstanceContainer_get_status(e2, id)
           ok   == created /\ f # <<"status", id>>
           a2   == [acc EXCEPT
                      !.ok = ok,
                      !.calls[id] = IF created
                                    THEN <<<<"create", TRUE>>, <<"status", ok>>>>
                                    ELSE <<<<"create", FALSE>>>>,
                      !.containers = IF ok
                         THEN (id :> [container_image |-> container_type_image(role),
                                      container_status |->
                                         IF st = "None" THEN "Unknown" ELSE st])
                              @@ acc.containers
                         ELSE acc.containers]
       IN IF new_propagates(ok) THEN [a2 EXCEPT !.eng = e2]
          ELSE create_loop(e2, instance_label, labels, i + 1, run, f,
                           [a2 EXCEPT !.ok = acc.ok /\ ok])

\* the daemon refuses the create-network call of this Create
NetFault == <<"create_network", <<"none", "none">> >>

\* variant: a failed network step is logged and the Create goes on
network_swallowed(ok) == FALSE

\* config::create_network_if_not_exists(..).await?
network_propagates(ok) == ~ok

\* what Instance::new does before its loop, in the order of its statements
steps_before_loop ==
  <<"find_free_port", "find_free_port", "labels", "generate_nginx_config">>

Instance_new(e, network_name, instance_label, nginx_port, adminer_port, run, f) ==
  LET labels == [instance |-> instance_label, image |-> "none",
                 nginx_port |-> to_string(nginx_port),
                 adminer_port |-> to_string(adminer_port)]
      start  == [ok |-> TRUE, eng |-> e, calls |-> [id \in Ids |-> <<>>],
                 containers |-> EmptyMap]
      net_ok == f # NetFault
      r      == create_loop(e, instance_label, labels, 1, run, f, start)
      tried  == SelectSeq(Roles, LAMBDA role :
                            r.calls[EngineId(instance_label, role)] # <<>>)
      instance == [uuid |-> instance_label,
                   status |-> Instance_get_status(r.containers),
                   containers |-> r.containers,
                   nginx_port |-> nginx_port, adminer_port |-> adminer_port]
  IN IF network_propagates(net_ok)
     THEN [ok |-> FALSE, eng |-> e, calls |-> start.calls, ret |-> EmptyMap,
           net_ok |-> FALSE, steps |-> <<"create_network_failed">>]
     ELSE [ok |-> r.ok, eng |-> r.eng, calls |-> r.calls,
           ret |-> IF r.ok THEN (instance_label :> instance) ELSE EmptyMap,
           net_ok |-> net_ok,
           steps |-> <<IF net_ok THEN "create_network" ELSE "create_network_failed">>
                       \o steps_before_loop \o tried]

----------------------------------------------------------------------------
(* State machine                                                           *)

NoCalls == [id \in Ids |-> <<>>]
NoFetched == [id \in Ids |-> "-"]
Everything == <<"*", "*">>

Idle == [fn |-> "none", op |-> "none", target |-> Everything,
         ok |-> TRUE, panic |-> FALSE, calls |-> NoCalls, fetched |-> NoFetched,
         visited |-> {}, retC |-> NoContainer, retI |-> EmptyMap,
         net |-> <<>>, purges |-> <<>>, todo |-> <<>>,
         env |-> <<>>, names |-> <<>>, steps |-> <<>>]

OpCalls(op) ==
  CASE op = "Start"   -> {"start"}
    [] op = "Stop"    -> {"stop"}
    [] op = "Restart" -> {"restart"}
    [] op = "Delete"  -> {"stop", "remove"}
    [] OTHER          -> {}

Idling == last.fn = "none"

\* one container operation of the Container Adapter
HandleContainer(id, op, f) ==
  LET r == handle_container(engine, id, op, f)
  IN /\ Idling
     /\ engine' = r.eng
     /\ last' = [Idle EXCEPT !.fn = "handle_container", !.op = op, !.target = id,
                             !.ok = r.ok,
                             !.calls = [NoCalls EXCEPT ![id] = r.calls],
                             !.fetched = [NoFetched EXCEPT ![id] = r.fetched],
                             !.retC = r.ret]
     /\ prev' = Idle
     /\ UNCHANGED <<networks, files>>

\* InstanceContainer::get_status of container.rs, called on its own
ContainerGetStatus(id, f) ==
  LET r == container_inspect_status(engine, id, f)
  IN /\ Idling
     /\ f # NoFault => Exists(engine, id)   \* an unknown id is answered 404
     /\ last' = [Idle EXCEPT !.fn = "container_get_status", !.op = "GetStatus",
                             !.target = id, !.ok = r.ok,
                             !.calls = [NoCalls EXCEPT ![id] = <<<<"inspect", r.ok>>>>],
                             !.retC = [NoContainer EXCEPT !.container_id = id,
                                          !.container_status = r.status]]
     /\ prev' = Idle
     /\ UNCHANGED <<engine, networks, files>>

\* InstanceContainer::get_status of instance.rs, called on its own
InstanceGetStatus(id, f) ==
  LET r == instance_inspect_status(engine, id, f)
  IN /\ Idling
     /\ f # NoFault => Exists(engine, id)   \* an unknown id is answered 404
     /\ last' = [Idle EXCEPT !.fn = "instance_get_status", !.op = "GetStatus",
                             !.target = id, !.ok = r.ok,
                             !.calls = [NoCalls EXCEPT ![id] = <<<<"inspect", r.ok>>>>],
                             !.retC = [NoContainer EXCEPT !.container_id = id,
                                          !.container_status = r.status]]
     /\ prev' = Idle
     /\ UNCHANGED <<engine, networks, files>>

\* one lifecycle operation on one instance
HandleInstance(uuid, op, f, q) ==
  LET r == handle_instance(engine, NETWORK_NAME, uuid, op, f, q)
  IN /\ Idling
     /\ engine' = r.eng
     /\ last' = [Idle EXCEPT !.fn = "handle_instance", !.op = op,
                             !.target = <<uuid, "*">>,
                             !.ok = r.ok, !.panic = r.panic, !.calls = r.calls,
                             !.fetched = r.fetched,
                             !.visited = IF r.found THEN {uuid} ELSE {},
                             !.retI = r.ret]
     /\ prev' = Idle
     /\ UNCHANGED <<networks, files>>

SvcHandleInstance(uuid, op, f) ==
  LET r == svc_handle_instance(engine, NETWORK_NAME, uuid, op, f)
  IN /\ Idling
     /\ engine' = r.eng
     /\ last' = [Idle EXCEPT !.fn = "svc_handle_instance", !.op = op,
                             !.target = <<uuid, "*">>,
                             !.ok = r.ok, !.calls = r.calls,
                             !.fetched = r.fetched,
                             !.visited = IF r.found THEN {uuid} ELSE {},
                             !.retI = r.ret]
     /\ prev' = Idle
     /\ UNCHANGED <<networks, files>>

\* one lifecycle operation on every instance; order is the iteration order
\* of the listing's HashMap
HandleAllInstances(op, f, q) ==
  LET L == Instance_list_all(engine, NETWORK_NAME, f)
  IN /\ Idling
     /\ ~L.panic
     /\ \E order \in Orders(DOMAIN L.instances) :
          LET r == handle_all_instances(engine, NETWORK_NAME, op, f, order, q)
          IN /\ engine' = r.eng
             /\ last' = [Idle EXCEPT !.fn = "handle_all_instances", !.op = op,
                                     !.ok = r.ok, !.calls = r.calls,
                                     !.fetched = r.fetched,
                                     !.visited = r.visited, !.retI = r.ret]
     /\ prev' = Idle
     /\ UNCHANGED <<networks, files>>

\* Create: the label is a fresh uuid
New(l, nginx_port, adminer_port, run, f) ==
  LET r == Instance_new(engine, NETWORK_NAME, l, nginx_port, adminer_port, run, f)
  IN /\ Idling
     /\ l \notin files
     /\ engine' = r.eng
     /\ networks' = IF r.net_ok THEN networks \cup {NETWORK_NAME} ELSE networks
     /\ files' = IF r.net_ok THEN files \cup {INSTANCES_ROOT, l} ELSE files
     /\ last' = [Idle EXCEPT !.fn = "new", !.op = "Create", !.target = <<l, "*">>,
                             !.ok = r.ok, !.calls = r.calls, !.retI = r.ret,
                             !.steps = r.steps]
     /\ prev' = IF r.ok THEN last' ELSE Idle

ListAll ==
  LET L == Instance_list_all(engine, NETWORK_NAME, NoFault)
  IN /\ Idling
     /\ last' = [Idle EXCEPT !.fn = "list_all", !.op = "List",
                             !.ok = ~L.panic, !.panic = L.panic,
                             !.retI = L.instances]
     /\ UNCHANGED <<engine, networks, files, prev>>

ListRunning ==
  /\ Idling
  /\ last' = [Idle EXCEPT !.fn = "list_running", !.op = "List",
                          !.ok = ~Instance_list_running(engine, NETWORK_NAME, NoFault).panic,
                          !.panic = Instance_list_running(engine, NETWORK_NAME, NoFault).panic,
                          !.retI = Instance_list_running(engine, NETWORK_NAME, NoFault).instances]
  /\ UNCHANGED <<engine, networks, files, prev>>

\* the handler has returned; its result goes to the caller and the program
\* waits for the next request
Return ==
  /\ ~Idling
  /\ last' = Idle
  /\ UNCHANGED <<engine, networks, files, prev>>

----------------------------------------------------------------------------
(* Initial engines                                                         *)

\* containers the user runs next to the program's own
Stray(id) == IF id = StrayNoNet
             THEN [Absent EXCEPT !.state = "running", !.instance = "a",
                                 !.network = "bridge", !.config = TRUE]
             ELSE [Absent EXCEPT !.state = "running", !.network = NETWORK_NAME,
                                 !.config = (id # StrayNoConfig)]

StrayEngine == [id \in Ids |-> IF id \in ForeignIds THEN Stray(id) ELSE Absent]

\* the engine after a Create of instance l that met no failure
Provision(e, l, nginx_port, adminer_port, run) ==
  Instance_new(e, NETWORK_NAME, l, nginx_port, adminer_port, run, NoFault).eng

----------------------------------------------------------------------------
(* Spec: lifecycle operations on an engine that holds instance a           *)

Init ==
  /\ engine = Provision(StrayEngine, "a", 10, 9, {})
  /\ networks = {NETWORK_NAME}
  /\ files = {INSTANCES_ROOT, "a"}
  /\ last = Idle
  /\ prev = Idle

Next ==
  \/ \E id \in MembersOf("a"), op \in Ops :
       \E f \in Faults(OpCalls(op), {id}) : HandleContainer(id, op, f)
  \/ \E op \in Ops :
       \E f \in Faults(OpCalls(op), MembersOf("a")), q \in Perms :
          HandleInstance("a", op, f, q)
  \/ \E op \in Ops : HandleInstance("b", op, NoFault, <<1, 2, 3, 4>>)
  \/ \E op \in Ops : HandleContainer(StrayNoConfig, op, NoFault)
  \/ \E op \in Ops, id \in MembersOf("a") :
       HandleInstance("a", op, <<"inspect", id>>, <<1, 2, 3, 4>>)
  \/ \E op \in Ops :
       \E f \in Faults(OpCalls(op), MembersOf("a")) : SvcHandleInstance("a", op, f)
  \/ \E id \in MemberIds : \E f \in Faults({"inspect"}, {id}) :
       ContainerGetStatus(id, f)
  \/ \E id \in MemberIds : \E f \in Faults({"inspect"}, {id}) :
       InstanceGetStatus(id, f)
  \/ ListAll
  \/ ListRunning
  \/ Return

Spec == Init /\ [][Next]_vars

----------------------------------------------------------------------------
(* SpecAll: one bulk operation or listing on an engine that holds the      *)
(* instances a and b                                                       *)

\* each instance is as Create left it, or was started, or started and stopped
InstanceStates == {"created", "running", "exited"}
TwoInstances == Provision(Provision(StrayEngine, "a", 10, 9, {}), "b", 9, 9, {})

InitAll ==
  /\ \E sa \in InstanceStates, sb \in InstanceStates :
        engine = [id \in Ids |->
                    IF id \in MembersOf("a") THEN [TwoInstances[id] EXCEPT !.state = sa]
                    ELSE IF id \in MembersOf("b")
                    THEN [TwoInstances[id] EXCEPT !.state = sb]
                    ELSE TwoInstances[id]]
  /\ networks = {NETWORK_NAME}
  /\ files = {INSTANCES_ROOT} \cup Labels
  /\ last = Idle
  /\ prev = Idle

NextAll ==
  \/ \E op \in Ops :
       \E f \in Faults(OpCalls(op), MemberIds), q \in Perms :
          HandleAllInstances(op, f, q)
  \/ ListAll

SpecAll == InitAll /\ [][NextAll]_vars

----------------------------------------------------------------------------
(* SpecCreate: instance creation and listing on an engine that holds no    *)
(* instance yet                                                            *)

InitCreate ==
  /\ engine = StrayEngine
  /\ networks = {}
  /\ files = {}
  /\ last = Idle
  /\ prev = Idle

\* the host ports that are taken: those published by a running reverse proxy
\* or admin tool container
HostPorts(e) ==
  {parse_port(e[id].nginx_port) : id \in {x \in Ids : /\ e[x].state = "running"
                                                      /\ e[x].image = "nginx"}}
    \cup {parse_port(e[id].adminer_port) :
             id \in {x \in Ids : e[x].state = "running" /\ e[x].image = "adminer"}}

\* variant: the port handed out may be one that is taken
find_any_port(taken) == PortSet

\* find_free_port: the ports the OS may hand out for a bind to port 0; the
\* listener is dropped on return, so the port is not in `taken` afterwards
find_free_port(taken) == PortSet \ taken

NextCreate ==
  \/ \E l \in Labels, run \in SUBSET RoleSet :
       \E np \in find_free_port(HostPorts(engine)),
          ap \in find_free_port(HostPorts(engine)) :
         \E f \in Faults({"create", "status"}, MembersOf(l)) \cup {NetFault} :
            New(l, np, ap, run, f)
  \/ ListAll
  \/ Return

SpecCreate == InitCreate /\ [][NextCreate]_vars

----------------------------------------------------------------------------
(* The status aggregator on its own: Instance::get_status applied to an    *)
(* Instance value whose containers carry any of the ContainerStatus values *)

ContainerStatuses == {"Running", "Stopped", "Restarting", "Paused", "Exited",
                      "Dead", "Unknown", "NotFound", "Deleted"}

\* an Instance value as Instance::default leaves it, holding containers cs
InstanceOf(uuid, cs) ==
  [uuid |-> uuid, status |-> "Unknown", containers |-> cs,
   nginx_port |-> 0, adminer_port |-> 0]

\* instance.status = Instance::get_status(&instance.containers)
GetStatus ==
  /\ last.fn = "default"
  /\ last' = [last EXCEPT !.fn = "get_status",
                !.retI = [u \in DOMAIN last.retI |->
                            [last.retI[u] EXCEPT
                               !.status = Instance_get_status(last.retI[u].containers)]]]
  /\ UNCHANGED <<engine, networks, files, prev>>

InitStatus ==
  /\ engine = [id \in Ids |-> Absent]
  /\ networks = {}
  /\ files = {}
  /\ prev = Idle
  /\ \E S \in SUBSET MembersOf("a") : \E st \in [S -> ContainerStatuses] :
        last = [Idle EXCEPT !.fn = "default", !.op = "GetStatus",
                  !.retI = ("a" :> InstanceOf("a",
                     [id \in S |-> [container_image |-> ContainerImage_from_str(id[2]),
                                    container_status |-> st[id]]]))]

NextStatus == GetStatus

SpecStatus == InitStatus /\ [][NextStatus]_vars

----------------------------------------------------------------------------
(* Deleting and purging: purge_instances and the delete commands of        *)
(* wpdev_cli/src/commands.rs                                               *)

\* the paths that fs::remove_dir_all(path) takes away with path
Below(path) == IF path = INSTANCES_ROOT THEN {INSTANCES_ROOT} \cup Labels ELSE {path}

\* fs::remove_dir_all: an error when path does not exist
remove_dir_all(fs, path) ==
  IF path \in fs THEN [ok |-> TRUE, files |-> fs \ Below(path)]
  ELSE [ok |-> FALSE, files |-> fs]

\* purge_instances: All removes custom_root, One(uuid) removes custom_root/uuid
purge_instances(fs, instance) ==
  IF instance = "All" THEN remove_dir_all(fs, INSTANCES_ROOT)
  ELSE remove_dir_all(fs, instance)

Selections == {"All"} \cup Labels

\* one entry of last.purges: the selector and whether its directory existed
PurgeEntry(fs, instance) ==
  <<instance, (IF instance = "All" THEN INSTANCES_ROOT ELSE instance) \in fs>>

PurgeInstances(instance) ==
  LET p == purge_instances(files, instance)
  IN /\ Idling
     /\ files' = p.files
     /\ last' = [Idle EXCEPT !.fn = "purge_instances", !.op = "Purge",
                             !.target = <<instance, "*">>, !.ok = p.ok,
                             !.purges = <<PurgeEntry(files, instance)>>]
     /\ prev' = Idle
     /\ UNCHANGED <<engine, networks>>

\* delete_instance: instance_handler(One(uuid), Delete) and nothing else
DeleteInstance(uuid, f, q) ==
  LET r == handle_instance(engine, NETWORK_NAME, uuid, "Delete", f, q)
  IN /\ Idling
     /\ engine' = r.eng
     /\ last' = [Idle EXCEPT !.fn = "delete_instance", !.op = "Delete",
                             !.target = <<uuid, "*">>,
                             !.ok = r.ok, !.panic = r.panic, !.calls = r.calls,
                             !.fetched = r.fetched,
                             !.visited = IF r.found THEN {uuid} ELSE {},
                             !.retI = r.ret]
     /\ prev' = Idle
     /\ UNCHANGED <<networks, files>>

\* variant: the directories are purged whatever the deletion returned
purge_always(deleted_ok) == TRUE

\* the `?` between instance_handler(All, Delete) and purge_instances(All)
purge_follows(deleted_ok) == deleted_ok

\* delete_all_instances: instance_handler(All, Delete)?, then
\* purge_instances(All)?
DeleteAllInstances(f, q) ==
  LET L == Instance_list_all(engine, NETWORK_NAME, f)
  IN /\ Idling
     /\ IF L.panic
        THEN /\ last' = [Idle EXCEPT !.fn = "delete_all_instances", !.op = "Delete",
                                     !.ok = FALSE, !.panic = TRUE]
             /\ UNCHANGED <<engine, files>>
        ELSE \E order \in Orders(DOMAIN L.instances) :
               LET r == handle_all_instances(engine, NETWORK_NAME, "Delete", f, order, q)
                   p == purge_instances(files, "All")
               IN /\ engine' = r.eng
                  /\ files' = IF purge_follows(r.ok) THEN p.files ELSE files
                  /\ last' = [Idle EXCEPT
                        !.fn = "delete_all_instances", !.op = "Delete",
                        !.ok = r.ok /\ (purge_follows(r.ok) => p.ok),
                        !.calls = r.calls,
                        !.fetched = r.fetched, !.visited = r.visited,
                        !.purges = IF purge_follows(r.ok)
                                   THEN <<PurgeEntry(files, "All")>> ELSE <<>>]
     /\ prev' = Idle
     /\ UNCHANGED networks

InitDelete ==
  /\ \E sa \in InstanceStates, sb \in InstanceStates :
        engine = [id \in Ids |->
                    IF id \in MembersOf("a") THEN [TwoInstances[id] EXCEPT !.state = sa]
                    ELSE IF id \in MembersOf("b")
                    THEN [TwoInstances[id] EXCEPT !.state = sb]
                    ELSE TwoInstances[id]]
  /\ networks = {NETWORK_NAME}
  /\ files = {INSTANCES_ROOT} \cup Labels
  /\ last = Idle
  /\ prev = Idle

\* the iteration orders and the engine failures that the delete commands meet
DeleteOrders == {q \in Perms : q = <<1, 2, 3, 4>> \/ q = <<4, 3, 2, 1>>}
DeleteFaults(uuids) == Faults({"stop", "remove"}, {EngineId(l, "nginx") : l \in uuids})

NextDelete ==
  \/ \E uuid \in Labels, q \in DeleteOrders :
       \E f \in DeleteFaults({uuid}) : DeleteInstance(uuid, f, q)
  \/ \E q \in DeleteOrders :
       \E f \in DeleteFaults(Labels) : DeleteAllInstances(f, q)
  \/ \E instance \in Selections : PurgeInstances(instance)
  \/ ListAll
  \/ Return

SpecDelete == InitDelete /\ [][NextDelete]_vars

----------------------------------------------------------------------------
(* Network creation: create_network_if_not_exists of config.rs and of      *)
(* docker_service.rs                                                       *)

\* format!("{}-{}", network_prefix, id)
prefixed_name(network_prefix, id) == <<network_prefix, "-", id>>

NetworkNames == {prefixed_name(NETWORK_NAME, l) : l \in Labels}

\* the engine's create-network call; with check_duplicate a name that is
\* already there is refused
engine_create_network(nets, name, check_duplicate, fails) ==
  IF fails \/ (check_duplicate /\ name \in nets)
  THEN [ok |-> FALSE, nets |-> nets, net |-> <<<<"create_network", FALSE>>>>]
  ELSE [ok |-> TRUE, nets |-> nets \cup {name}, net |-> <<<<"create_network", TRUE>>>>]

\* config.rs: the network is created without looking for it first
create_network_if_not_exists(nets, network_prefix, id, fails) ==
  engine_create_network(nets, prefixed_name(network_prefix, id), TRUE, fails)

\* docker_service.rs: the networks are listed and an existing name is skipped
svc_create_network_if_not_exists(nets, network_name, fails) ==
  IF network_name \in nets
  THEN [ok |-> TRUE, nets |-> nets, net |-> <<>>]
  ELSE engine_create_network(nets, network_name, FALSE, fails)

CreateNetwork(id, fails) ==
  LET r == create_network_if_not_exists(networks, NETWORK_NAME, id, fails)
  IN /\ networks' = r.nets
     /\ last' = [Idle EXCEPT !.fn = "create_network_if_not_exists",
                             !.op = "CreateNetwork",
                             !.target = prefixed_name(NETWORK_NAME, id),
                             !.ok = r.ok, !.net = r.net]
     /\ prev' = last
     /\ UNCHANGED <<engine, files>>

SvcCreateNetwork(network_name, fails) ==
  LET r == svc_create_network_if_not_exists(networks, network_name, fails)
  IN /\ networks' = r.nets
     /\ last' = [Idle EXCEPT !.fn = "svc_create_network_if_not_exists",
                             !.op = "CreateNetwork", !.target = network_name,
                             !.ok = r.ok, !.net = r.net]
     /\ prev' = last
     /\ UNCHANGED <<engine, files>>

\* HostConfig.network_mode in InstanceContainer::new of docker/container.rs
InstanceContainer_network_mode(instance_label) ==
  prefixed_name(NETWORK_NAME, instance_label)

\* HostConfig.network_mode in configure_container of docker/config.rs
configure_container_network_mode(instance_label) == <<NETWORK_NAME>>

\* a container of instance l is created by InstanceContainer::new
AttachNew(l) ==
  /\ last' = [Idle EXCEPT !.fn = "InstanceContainer::new", !.op = "Attach",
                          !.target = l,
                          !.names = InstanceContainer_network_mode(l)]
  /\ prev' = last
  /\ UNCHANGED <<engine, networks, files>>

\* a container of instance l is created by configure_container
AttachConfigured(l) ==
  /\ last' = [Idle EXCEPT !.fn = "configure_container", !.op = "Attach",
                          !.target = l,
                          !.names = configure_container_network_mode(l)]
  /\ prev' = last
  /\ UNCHANGED <<engine, networks, files>>

InitNetwork ==
  /\ engine = [id \in Ids |-> Absent]
  /\ networks = {}
  /\ files = {}
  /\ last = Idle
  /\ prev = Idle

NextNetwork ==
  \/ \E id \in Labels, fails \in BOOLEAN : CreateNetwork(id, fails)
  \/ \E network_name \in NetworkNames, fails \in BOOLEAN :
       SvcCreateNetwork(network_name, fails)
  \/ \E l \in Labels : AttachNew(l)
  \/ \E l \in Labels : AttachConfigured(l)

SpecNetwork == InitNetwork /\ [][NextNetwork]_vars

----------------------------------------------------------------------------
(* SpecRace: two calls of handle_instance on instance a run concurrently.   *)
(* Every daemon call is an await point, so the calls of the two tasks       *)
(* interleave; last is the record of the first task and prev the record of  *)
(* the second.  No daemon call is made to fail by the engine itself.        *)

\* the daemon calls the loop of handle_instance is going to issue, decided
\* from the statuses of the listing it took on entry
RECURSIVE instance_pending(_, _, _)
instance_pending(order, containers, operation) ==
  IF order = <<>> THEN <<>>
  ELSE LET id == Head(order)
           cs == instance_calls(operation, containers[id].container_status)
       IN [i \in 1..Len(cs) |-> <<id, cs[i]>>]
            \o instance_pending(Tail(order), containers, operation)

\* entry of handle_instance: Instance::list_all and the lookup of the uuid
Enter(task, uuid, op, q) ==
  LET L == Instance_list_all(engine, NETWORK_NAME, NoFault)
  IN IF L.panic \/ uuid \notin DOMAIN L.instances
     THEN [task EXCEPT !.fn = "handle_instance", !.op = op,
                       !.target = <<uuid, "*">>, !.ok = FALSE, !.panic = L.panic]
     ELSE LET containers == L.instances[uuid].containers
          IN [task EXCEPT !.fn = "handle_instance", !.op = op,
                          !.target = <<uuid, "*">>, !.visited = {uuid},
                          !.fetched = [id \in Ids |->
                             IF id \in DOMAIN containers
                             THEN containers[id].container_status ELSE "-"],
                          !.todo = instance_pending(
                                     HashOrder(DOMAIN containers, q),
                                     containers, op)]

\* the record of a task after its next daemon call has answered r
Advance(task, r) ==
  LET id   == Head(task.todo)[1]
      call == Head(task.todo)[2]
  IN [task EXCEPT !.calls[id] = Append(@, <<call, r.ok>>),
                  !.ok = r.ok,
                  !.todo = IF r.ok THEN Tail(task.todo) ELSE <<>>]

NextCall(task) == engine_call(engine, Head(task.todo)[1], Head(task.todo)[2], NoFault)

FirstEnters(op, q) ==
  /\ last.fn = "none"
  /\ last' = Enter(last, "a", op, q)
  /\ UNCHANGED <<engine, networks, files, prev>>

SecondEnters(op, q) ==
  /\ prev.fn = "none"
  /\ prev' = Enter(prev, "a", op, q)
  /\ UNCHANGED <<engine, networks, files, last>>

FirstCalls ==
  /\ last.todo # <<>>
  /\ engine' = NextCall(last).eng
  /\ last' = Advance(last, NextCall(last))
  /\ UNCHANGED <<networks, files, prev>>

SecondCalls ==
  /\ prev.todo # <<>>
  /\ engine' = NextCall(prev).eng
  /\ prev' = Advance(prev, NextCall(prev))
  /\ UNCHANGED <<networks, files, last>>

RaceOps == {"Start", "Stop", "Restart", "Delete"}

InitRace ==
  /\ \E sa \in InstanceStates :
        engine = [id \in Ids |->
                    IF id \in MembersOf("a")
                    THEN [Provision(StrayEngine, "a", 10, 9, {})[id] EXCEPT !.state = sa]
                    ELSE StrayEngine[id]]
  /\ networks = {NETWORK_NAME}
  /\ files = {INSTANCES_ROOT, "a"}
  /\ last = Idle
  /\ prev = Idle

NextRace ==
  \/ \E op \in RaceOps : FirstEnters(op, <<1, 2, 3, 4>>)
  \/ \E op \in RaceOps : SecondEnters(op, <<4, 3, 2, 1>>)
  \/ FirstCalls
  \/ SecondCalls

SpecRace == InitRace /\ [][NextRace]_vars

----------------------------------------------------------------------------
(* SpecNames: the container names.  A name is the sequence of its parts,    *)
(* <<label, "-", text>>; an environment is a map from keys to values.       *)

\* the inherent ContainerImage::to_string
ContainerImage_to_string(image) ==
  CASE image = "Adminer"   -> "adminer"
    [] image = "MySQL"     -> "mysql"
    [] image = "Nginx"     -> "nginx"
    [] image = "Wordpress" -> "wordpress"
    [] OTHER               -> "unknown"

\* impl fmt::Display for ContainerImage, which format!("{}", image) uses
ContainerImage_fmt(image) ==
  CASE image = "MySQL"     -> "MySQL"
    [] image = "Wordpress" -> "Wordpress"
    [] image = "Nginx"     -> "Nginx"
    [] image = "Adminer"   -> "Adminer"
    [] OTHER               -> "Unknown"

\* format!("{}-{}", instance_label, text)
format_name(instance_label, text) == <<instance_label, "-", text>>

\* variant: a default is kept when the user overrides its key
merge_env_vars_keeping(defaults, overrides) ==
  [k \in DOMAIN defaults \cup DOMAIN overrides |->
     IF k \in DOMAIN defaults THEN defaults[k] ELSE overrides[k]]

\* merge_env_vars: the overrides win key by key
merge_env_vars(defaults, overrides) ==
  [k \in DOMAIN defaults \cup DOMAIN overrides |->
     IF k \in DOMAIN overrides THEN overrides[k] ELSE defaults[k]]

\* initialize_env_vars; of the defaults only the keys that name a container
\* and one that does not are kept
initialize_env_vars(instance_label, user_env_vars) ==
  LET default_adminer_vars ==
        [ADMINER_DEFAULT_SERVER |->
           format_name(instance_label, ContainerImage_to_string("MySQL")),
         ADMINER_DEFAULT_USERNAME |-> <<"wordpress">>]
      default_mysql_vars == [MYSQL_DATABASE |-> <<"wordpress">>]
      default_wordpress_vars ==
        [WORDPRESS_DB_HOST |->
           format_name(instance_label, ContainerImage_to_string("MySQL")),
         WORDPRESS_DEBUG |-> <<"1">>]
  IN [adminer |-> merge_env_vars(default_adminer_vars, EmptyMap),
      mysql |-> merge_env_vars(default_mysql_vars, EmptyMap),
      wordpress |-> merge_env_vars(default_wordpress_vars, user_env_vars)]

\* the names configure_nginx_container hands to generate_nginx_config
configure_nginx_container(instance_label) ==
  [adminer_name |-> format_name(instance_label, ContainerImage_to_string("Adminer")),
   wordpress_name |->
     format_name(instance_label, ContainerImage_to_string("Wordpress"))]

\* CreateContainerOptions.name in configure_container of docker/config.rs
configure_container(instance_label, container_image) ==
  format_name(instance_label, ContainerImage_fmt(container_image))

\* CreateContainerOptions.name in InstanceContainer::new of docker/container.rs
InstanceContainer_new(instance_label, container_image) ==
  format_name(instance_label, ContainerImage_to_string(container_image))

\* env_vars.into_iter().map(|(k, v)| format!("{}={}", k, v)).collect(): one
\* entry <<key, "=", value>> for each key of the map
EnvKeys == <<"WORDPRESS_DB_HOST", "WORDPRESS_DEBUG">>
collect_env_vars(env_vars) ==
  LET keys == SelectSeq(EnvKeys, LAMBDA k : k \in DOMAIN env_vars)
  IN [i \in 1..Len(keys) |-> <<keys[i], "=", env_vars[keys[i]]>>]

Images == {"Adminer", "MySQL", "Nginx", "Wordpress"}
\* what the user may override of the Application container's environment
UserEnvVars ==
  {EmptyMap,
   [WORDPRESS_DB_HOST |-> <<"db">>],
   [WORDPRESS_DEBUG |-> <<"0">>],
   [WORDPRESS_DB_HOST |-> <<"db">>, WORDPRESS_DEBUG |-> <<"0">>]}

\* the maps over the keys EnvKeys that merge_env_vars is given
EnvValues == {<<"db">>, <<"0">>}
EnvMaps ==
  UNION {[K -> EnvValues] : K \in SUBSET {EnvKeys[i] : i \in 1..Len(EnvKeys)}}

MergeEnvVars(defaults, overrides) ==
  /\ last' = [Idle EXCEPT !.fn = "merge_env_vars",
                          !.env = [defaults |-> defaults, overrides |-> overrides,
                                   out |-> collect_env_vars(
                                             merge_env_vars(defaults, overrides))]]
  /\ prev' = last
  /\ UNCHANGED <<engine, networks, files>>

InitializeEnvVars(l, user_env_vars) ==
  /\ last' = [Idle EXCEPT !.fn = "initialize_env_vars", !.target = <<l, "*">>,
                          !.op = IF user_env_vars = EmptyMap THEN "defaults"
                                 ELSE "overrides",
                          !.env = initialize_env_vars(l, user_env_vars)]
  /\ prev' = last
  /\ UNCHANGED <<engine, networks, files>>

ConfigureNginxContainer(l) ==
  /\ last' = [Idle EXCEPT !.fn = "configure_nginx_container", !.target = <<l, "*">>,
                          !.names = configure_nginx_container(l)]
  /\ prev' = last
  /\ UNCHANGED <<engine, networks, files>>

ConfigureContainer(l, image) ==
  /\ last' = [Idle EXCEPT !.fn = "configure_container", !.target = <<l, image>>,
                          !.names = configure_container(l, image)]
  /\ prev' = last
  /\ UNCHANGED <<engine, networks, files>>

InstanceContainerNew(l, image) ==
  /\ last' = [Idle EXCEPT !.fn = "InstanceContainer::new", !.target = <<l, image>>,
                          !.names = InstanceContainer_new(l, image)]
  /\ prev' = last
  /\ UNCHANGED <<engine, networks, files>>

InitNames ==
  /\ engine = StrayEngine
  /\ networks = {}
  /\ files = {}
  /\ last = Idle
  /\ prev = Idle

NextNames ==
  \/ \E l \in Labels, u \in UserEnvVars : InitializeEnvVars(l, u)
  \/ \E l \in Labels : ConfigureNginxContainer(l)
  \/ \E l \in Labels, image \in Images : ConfigureContainer(l, image)
  \/ \E l \in Labels, image \in Images : InstanceContainerNew(l, image)
  \/ \E defaults \in EnvMaps, overrides \in EnvMaps : MergeEnvVars(defaults, overrides)

SpecNames == InitNames /\ [][NextNames]_vars

----------------------------------------------------------------------------
(* SpecData: the InstanceData file of an instance.  files maps the path of  *)
(* each file that was written to its TOML text; a path is the sequence of   *)
(* its components and a TOML text the sequence of its <<key, value>> lines. *)

\* extract_value: the value of the entry KEY=VALUE of env, or "defaultValue"
extract_value(env, key) ==
  IF key \in DOMAIN env THEN env[key] ELSE <<"defaultValue">>

\* the InstanceData that parse_instance_data and Instance::parse build
instance_data(env_vars, nginx_port, adminer_port, instance_label) ==
  [adminer_user |-> extract_value(env_vars.adminer, "ADMINER_DEFAULT_USERNAME"),
   site_url |-> <<"localhost", ":", to_string(nginx_port)>>,
   adminer_url |-> <<"localhost", ":", to_string(adminer_port)>>,
   network_name |-> format_name(NETWORK_NAME, instance_label),
   nginx_port |-> nginx_port,
   adminer_port |-> adminer_port]

\* toml::to_string: strings are written as they are, integers in decimal
toml_to_string(data) ==
  << <<"adminer_user", data.adminer_user>>,
     <<"site_url", data.site_url>>,
     <<"adminer_url", data.adminer_url>>,
     <<"network_name", data.network_name>>,
     <<"nginx_port", to_string(data.nginx_port)>>,
     <<"adminer_port", to_string(data.adminer_port)>> >>

\* toml::from_str into InstanceData
toml_value(contents, key) ==
  contents[CHOOSE i \in 1..Len(contents) : contents[i][1] = key][2]
toml_from_str(contents) ==
  [adminer_user |-> toml_value(contents, "adminer_user"),
   site_url |-> toml_value(contents, "site_url"),
   adminer_url |-> toml_value(contents, "adminer_url"),
   network_name |-> toml_value(contents, "network_name"),
   nginx_port |-> parse_u32(toml_value(contents, "nginx_port")),
   adminer_port |-> parse_u32(toml_value(contents, "adminer_port"))]

\* the path parse_instance_data of config.rs writes to
parse_instance_data_path(instance_label) ==
  <<INSTANCES_ROOT, format_name(NETWORK_NAME, instance_label), "instance.toml">>

\* the path read_instance_data_from_toml of config.rs reads from
read_instance_data_path(instance_label) ==
  <<INSTANCES_ROOT, <<instance_label>>, "instance.toml">>

\* the path both Instance::parse and Instance::default of instance.rs use
instance_toml_path(instance_label) ==
  <<"home", <<INSTANCES_ROOT, instance_label>>, "instance.toml">>

\* fs::write(path, contents)
fs_write(fs, path, contents) ==
  [p \in DOMAIN fs \cup {path} |-> IF p = path THEN contents ELSE fs[p]]

\* a write of the InstanceData of instance l to path
WriteData(fn, l, path, nginx_port, adminer_port) ==
  LET data == instance_data(initialize_env_vars(l, EmptyMap),
                            nginx_port, adminer_port, l)
  IN /\ files' = fs_write(files, path, toml_to_string(data))
     /\ last' = [Idle EXCEPT !.fn = fn, !.target = <<l, "*">>,
                             !.env = data, !.names = path]
     /\ prev' = last
     /\ UNCHANGED <<engine, networks>>

\* a read of the InstanceData of instance l from path
ReadData(fn, l, path) ==
  /\ last' = IF path \in DOMAIN files
             THEN [Idle EXCEPT !.fn = fn, !.target = <<l, "*">>,
                               !.env = toml_from_str(files[path]), !.names = path]
             ELSE \* Err("Instance file not found at ..")
                  [Idle EXCEPT !.fn = fn, !.target = <<l, "*">>, !.ok = FALSE,
                               !.names = path]
  /\ prev' = last
  /\ UNCHANGED <<engine, networks, files>>

ParseInstanceData(l, nginx_port, adminer_port) ==
  WriteData("parse_instance_data", l, parse_instance_data_path(l),
            nginx_port, adminer_port)

ReadInstanceDataFromToml(l) ==
  ReadData("read_instance_data_from_toml", l, read_instance_data_path(l))

InstanceParse(l, nginx_port, adminer_port) ==
  WriteData("Instance::parse", l, instance_toml_path(l), nginx_port, adminer_port)

InstanceDefault(l) ==
  ReadData("Instance::default", l, instance_toml_path(l))

InitData ==
  /\ engine = StrayEngine
  /\ networks = {}
  /\ files = EmptyMap
  /\ last = Idle
  /\ prev = Idle

NextData ==
  \/ \E l \in Labels, np \in PortSet : ParseInstanceData(l, np, MaxPort)
  \/ \E l \in Labels : ReadInstanceDataFromToml(l)
  \/ \E l \in Labels, np \in PortSet : InstanceParse(l, np, MaxPort)
  \/ \E l \in Labels : InstanceDefault(l)

SpecData == InitData /\ [][NextData]_vars

----------------------------------------------------------------------------
(* SpecNetRace: the network step of two Creates that run concurrently.  The *)
(* listing of the networks and the create-network call are two daemon calls *)
(* with an await point in between; last is the record of the first Create   *)
(* and prev the record of the second.  The daemon itself refuses no call.   *)

\* docker_service.rs: docker.networks().list(..) and the test on its answer
listed_network_step(task, network_name) ==
  [task EXCEPT !.fn = "svc_create_network_if_not_exists", !.op = "CreateNetwork",
               !.target = network_name,
               !.todo = IF network_name \in networks THEN <<>>
                        ELSE <<"create_network">>]

\* config.rs: no listing, the create-network call is what is left to do
unlisted_network_step(task, network_name) ==
  [task EXCEPT !.fn = "create_network_if_not_exists", !.op = "CreateNetwork",
               !.target = network_name, !.todo = <<"create_network">>]

\* the create-network call of the task
network_call(task) ==
  engine_create_network(networks, task.target,
                        task.fn = "create_network_if_not_exists", FALSE)

network_done(task, r) == [task EXCEPT !.ok = r.ok, !.net = r.net, !.todo = <<>>]

FirstLists(network_name) ==
  /\ last.fn = "none"
  /\ last' = listed_network_step(last, network_name)
  /\ UNCHANGED <<engine, networks, files, prev>>

SecondLists(network_name) ==
  /\ prev.fn = "none"
  /\ prev' = listed_network_step(prev, network_name)
  /\ UNCHANGED <<engine, networks, files, last>>

FirstBegins(network_name) ==
  /\ last.fn = "none"
  /\ last' = unlisted_network_step(last, network_name)
  /\ UNCHANGED <<engine, networks, files, prev>>

SecondBegins(network_name) ==
  /\ prev.fn = "none"
  /\ prev' = unlisted_network_step(prev, network_name)
  /\ UNCHANGED <<engine, networks, files, last>>

FirstCreates ==
  /\ last.todo # <<>>
  /\ networks' = network_call(last).nets
  /\ last' = network_done(last, network_call(last))
  /\ UNCHANGED <<engine, files, prev>>

SecondCreates ==
  /\ prev.todo # <<>>
  /\ networks' = network_call(prev).nets
  /\ prev' = network_done(prev, network_call(prev))
  /\ UNCHANGED <<engine, files, last>>

InitNetRace ==
  /\ engine = [id \in Ids |-> Absent]
  /\ networks \in SUBSET NetworkNames
  /\ files = {}
  /\ last = Idle
  /\ prev = Idle

NextNetRace ==
  \/ \E network_name \in NetworkNames : FirstLists(network_name)
  \/ \E network_name \in NetworkNames : SecondLists(network_name)
  \/ \E network_name \in NetworkNames : FirstBegins(network_name)
  \/ \E network_name \in NetworkNames : SecondBegins(network_name)
  \/ FirstCreates
  \/ SecondCreates

SpecNetRace == InitNetRace /\ [][NextNetRace]_vars

----------------------------------------------------------------------------
(* SpecMapping: the translations of the daemon's state of a container into *)
(* a ContainerStatus, applied to containers in any state the daemon knows  *)

\* the values of State.Status in the daemon's answers
EngineStates == {"created", "running", "paused", "restarting", "exited", "dead"}

\* fetch_container_status of docker_service.rs, called on its own
FetchContainerStatus(id) ==
  /\ Idling
  /\ last' = [Idle EXCEPT !.fn = "fetch_container_status", !.op = "GetStatus",
                          !.target = id,
                          !.calls = [NoCalls EXCEPT ![id] = <<<<"inspect", TRUE>>>>],
                          !.retC = [NoContainer EXCEPT !.container_id = id,
                                      !.container_status =
                                         fetch_container_status(engine, id)]]
  /\ prev' = Idle
  /\ UNCHANGED <<engine, networks, files>>

InitMapping ==
  /\ \E st \in [MembersOf("a") -> EngineStates] :
        engine = [id \in Ids |->
                    IF id \in MembersOf("a")
                    THEN [Provision(StrayEngine, "a", 10, 9, {})[id]
                            EXCEPT !.state = st[id]]
                    ELSE StrayEngine[id]]
  /\ networks = {NETWORK_NAME}
  /\ files = {INSTANCES_ROOT, "a"}
  /\ last = Idle
  /\ prev = Idle

NextMapping ==
  \/ \E id \in MembersOf("a") : ContainerGetStatus(id, NoFault)
  \/ \E id \in MembersOf("a") : InstanceGetStatus(id, NoFault)
  \/ \E id \in MembersOf("a") : FetchContainerStatus(id)
  \/ ListAll

SpecMapping == InitMapping /\ [][NextMapping]_vars

----------------------------------------------------------------------------
(* SpecAfter: what follows a delete of instance a on an engine that holds  *)
(* the instances a and b.  prev keeps the result the caller has received.  *)

\* the handler has returned and the caller holds its result
ReturnToCaller ==
  /\ ~Idling
  /\ last' = Idle
  /\ prev' = last
  /\ UNCHANGED <<engine, networks, files>>

NextAfter ==
  \/ \E f \in Faults({"remove", "inspect"}, MembersOf("a")) :
       \E q \in {<<1, 2, 3, 4>>, <<4, 3, 2, 1>>} : HandleInstance("a", "Delete", f, q)
  \/ \E op \in Ops : HandleInstance("a", op, NoFault, <<1, 2, 3, 4>>)
  \/ ListAll
  \/ ReturnToCaller

SpecAfter == InitAll /\ [][NextAfter]_vars

----------------------------------------------------------------------------
(* SpecList: one listing of an engine that holds the instances a and b,    *)
(* while the daemon may reject the inspect of one listed container         *)

\* list_instances of docker_service.rs: the Err arm of the inspect prints the
\* error and the loop goes on; an instance holds the ids of its containers
svc_list_instances(e, network_name, f) ==
  LET kept  == SelectSeq(docker_list(e, TRUE),
                 LAMBDA id : f # <<"inspect", id>> /\ list_admits(e[id], network_name))
      uuids == {e[kept[i]].instance : i \in DOMAIN kept}
  IN [ok |-> TRUE,
      instances |-> [u \in uuids |->
         [uuid |-> u,
          container_ids |-> SelectSeq(kept, LAMBDA id : e[id].instance = u)]]]

\* list_instances of docker/manager.rs: inspect().await? returns the error of
\* the first listed container whose inspect fails
manager_list_instances(e, network_name, f) ==
  IF \E i \in DOMAIN docker_list(e, TRUE) : f = <<"inspect", docker_list(e, TRUE)[i]>>
  THEN [ok |-> FALSE, instances |-> EmptyMap]
  ELSE svc_list_instances(e, network_name, NoFault)

\* Instance::list_all while the daemon rejects the call f
ListAllWith(f) ==
  /\ Idling
  /\ last' = [Idle EXCEPT !.fn = "list_all", !.op = "List", !.target = f[2],
                !.ok = ~Instance_list_all(engine, NETWORK_NAME, f).panic,
                !.panic = Instance_list_all(engine, NETWORK_NAME, f).panic,
                !.retI = Instance_list_all(engine, NETWORK_NAME, f).instances]
  /\ UNCHANGED <<engine, networks, files, prev>>

SvcListInstances(f) ==
  /\ Idling
  /\ last' = [Idle EXCEPT !.fn = "svc_list_instances", !.op = "List",
                !.target = f[2],
                !.ok = svc_list_instances(engine, NETWORK_NAME, f).ok,
                !.retI = svc_list_instances(engine, NETWORK_NAME, f).instances]
  /\ UNCHANGED <<engine, networks, files, prev>>

ManagerListInstances(f) ==
  /\ Idling
  /\ last' = [Idle EXCEPT !.fn = "manager_list_instances", !.op = "List",
                !.target = f[2],
                !.ok = manager_list_instances(engine, NETWORK_NAME, f).ok,
                !.retI = manager_list_instances(engine, NETWORK_NAME, f).instances]
  /\ UNCHANGED <<engine, networks, files, prev>>

NextList ==
  \/ \E f \in Faults({"inspect"}, MemberIds) : ListAllWith(f)
  \/ \E f \in Faults({"inspect"}, MemberIds) : SvcListInstances(f)
  \/ \E f \in Faults({"inspect"}, MemberIds) : ManagerListInstances(f)

SpecList == InitAll /\ [][NextList]_vars

----------------------------------------------------------------------------
(* Properties                                                              *)

Lifecycle == {"handle_container", "handle_instance", "svc_handle_instance"}
Visited(id) == last.fetched[id] # "-"
CallNames(id) == {last.calls[id][i][1] : i \in 1..Len(last.calls[id])}
\* the operation's idempotence rule tells it to leave container id alone
Skipped(id) ==
  \/ last.op = "Start" /\ last.fetched[id] = "Running"
  \/ last.op = "Stop" /\ Visited(id) /\ last.fetched[id] # "Running"
\* container id is a member of instance u in the engine
MemberOf(id, u) ==
  /\ Exists(engine, id)
  /\ engine[id].network = NETWORK_NAME
  /\ engine[id].instance = u

\* C1: a start whose fetched status is Running issues no start call, a stop
\* whose fetched status is not Running issues no stop call (no daemon call at
\* all is made for that container), and the operation returns success
C1_IdempotentStartStop ==
  last.fn \in Lifecycle =>
    /\ \A id \in Ids : Skipped(id) =>
          /\ "start" \notin CallNames(id)
          /\ "stop" \notin CallNames(id)
          /\ last.calls[id] = <<>>
    /\ (last.fn = "handle_container" /\ Skipped(last.target)) =>
          last.ok /\ last.retC.container_id = last.target
    /\ ((\E id \in Ids : Visited(id)) /\ (\A id \in Ids : Visited(id) => Skipped(id)))
          => last.ok

C1_Witness ==
  /\ last.fn = "handle_container"
  /\ last.op = "Start"
  /\ last.fetched[last.target] = "Running"
  /\ last.ok

\* C2: in a delete of a container whose fetched status is Running the first
\* daemon call is a stop, a remove is only issued right after a stop that
\* succeeded, and a failed stop is the last call for that container
C2_StopBeforeRemove ==
  (last.fn \in Lifecycle \cup {"handle_all_instances"} /\ last.op = "Delete") =>
    \A id \in Ids : last.fetched[id] = "Running" =>
      LET cs == last.calls[id]
      IN /\ Len(cs) >= 1
         /\ cs[1][1] = "stop"
         /\ \A i \in 1..Len(cs) :
              /\ cs[i][1] = "remove" => (i > 1 /\ cs[i - 1] = <<"stop", TRUE>>)
              /\ cs[i] = <<"stop", FALSE>> => i = Len(cs)

C2_Witness ==
  /\ last.fn = "handle_instance"
  /\ last.op = "Delete"
  /\ \E id \in Ids : /\ last.fetched[id] = "Running"
                     /\ last.calls[id] = <<<<"stop", TRUE>>, <<"remove", TRUE>>>>
  /\ \E id \in Ids : /\ last.fetched[id] = "Running"
                     /\ last.calls[id] = <<<<"stop", FALSE>>>>

\* C3: a delete of a container that the engine no longer has is reported as
\* success (so a delete after which the container is gone always succeeded)
C3_DeleteAbsentSucceeds ==
  (last.fn = "handle_container" /\ last.op = "Delete"
     /\ ~Exists(engine, last.target)) => last.ok

\* C4: the status in the value a container operation returns is the status
\* the engine reports after the operation
C4_ReturnsFreshStatus ==
  /\ (last.fn = "handle_container" /\ last.ok) =>
        last.retC.container_status =
           IF Exists(engine, last.target)
           THEN container_get_status(engine[last.target].state)
           ELSE "NotFound"
  /\ (last.fn = "handle_instance" /\ last.ok) =>
        \A u \in DOMAIN last.retI : \A id \in DOMAIN last.retI[u].containers :
           last.retI[u].containers[id].container_status =
              list_container_status(engine[id].state)

\* C5: a fan-out over an instance reaches every member container, whether
\* or not the call for another member failed
C5_FanOutContinues ==
  (last.fn \in {"handle_instance", "svc_handle_instance"} /\ last.visited # {}) =>
    \A u \in last.visited : \A id \in Ids : MemberOf(id, u) => Visited(id)

\* C6: in a bulk operation every instance none of whose daemon calls failed
\* is fully processed, whatever happens to the other instances
FailedIn(u) ==
  \E id \in Ids : /\ engine[id].instance = u
                  /\ \E i \in 1..Len(last.calls[id]) : ~last.calls[id][i][2]
C6_BulkIsolatesFailures ==
  last.fn = "handle_all_instances" =>
    \A u \in Labels : ~FailedIn(u) =>
       /\ u \in last.visited
       /\ \A id \in Ids : MemberOf(id, u) => Visited(id)

\* C7: when the create call or the status query of the k-th container fails,
\* Create returns an error, the containers before k exist, nothing is created
\* for the roles after k, and every role saw at most one create call
RoleId(k) == EngineId(last.target[1], Roles[k])
FailedAt(k) ==
  \E i \in 1..Len(last.calls[RoleId(k)]) : ~last.calls[RoleId(k)][i][2]
C7_NoRollbackNoRetry ==
  last.fn = "new" =>
    \A k \in 1..Len(Roles) : FailedAt(k) =>
       /\ ~last.ok
       /\ last.retI = EmptyMap
       /\ \A j \in 1..(k - 1) :
             /\ Exists(engine, RoleId(j))
             /\ last.calls[RoleId(j)] = <<<<"create", TRUE>>, <<"status", TRUE>>>>
       /\ \A j \in (k + 1)..Len(Roles) :
             /\ last.calls[RoleId(j)] = <<>>
             /\ ~Exists(engine, RoleId(j))
       /\ \A j \in 1..Len(Roles) :
             Cardinality({i \in 1..Len(last.calls[RoleId(j)]) :
                             last.calls[RoleId(j)][i][1] = "create"}) <= 1

C7_Witness ==
  /\ last.fn = "new"
  /\ ~last.ok
  /\ last.calls[RoleId(3)] = <<<<"create", FALSE>>>>
  /\ Exists(engine, RoleId(1))
  /\ Exists(engine, RoleId(2))

\* C8: a successful Create returns four containers, one per role, and the
\* instance status is Running exactly when the engine reports all four running
C8_FourRoles ==
  (last.fn = "new" /\ last.ok) =>
    LET inst == last.retI[last.target[1]]
        cs   == inst.containers
    IN /\ Cardinality(DOMAIN cs) = 4
       /\ \A image \in {"MySQL", "Wordpress", "Nginx", "Adminer"} :
            Cardinality({id \in DOMAIN cs : cs[id].container_image = image}) = 1
       /\ (inst.status = "Running") <=>
            (\A id \in DOMAIN cs : engine[id].state = "running")

C8_Witness ==
  /\ last.fn = "new"
  /\ last.ok
  /\ last.retI[last.target[1]].status = "Running"

\* C9: a listing that follows a successful Create returns the instance with
\* the container ids and the two ports that Create returned
C9_ListAfterCreate ==
  (last.fn = "list_all" /\ prev.fn = "new") =>
    LET u       == prev.target[1]
        created == prev.retI[u]
    IN /\ last.ok
       /\ u \in DOMAIN last.retI
       /\ DOMAIN last.retI[u].containers = DOMAIN created.containers
       /\ last.retI[u].nginx_port = created.nginx_port
       /\ last.retI[u].adminer_port = created.adminer_port

C9_Witness ==
  /\ last.fn = "list_all"
  /\ prev.fn = "new"
  /\ prev.retI[prev.target[1]].nginx_port >= 10
  /\ prev.retI[prev.target[1]].adminer_port # prev.retI[prev.target[1]].nginx_port

\* C10: every listed instance holds exactly the engine's containers that are
\* on the network and carry its instance label, and every label that such a
\* container carries is listed
C10_MembershipByQuery ==
  (last.fn = "list_all" /\ last.ok) =>
    /\ \A u \in DOMAIN last.retI :
         DOMAIN last.retI[u].containers = {id \in Ids : MemberOf(id, u)}
    /\ \A id \in Ids :
         (Exists(engine, id) /\ engine[id].network = NETWORK_NAME
            /\ engine[id].instance # "none") => engine[id].instance \in DOMAIN last.retI

C10_Witness ==
  /\ last.fn = "list_all"
  /\ last.ok
  /\ DOMAIN last.retI = {"a", "b"}
  /\ Cardinality(DOMAIN last.retI["a"].containers) = 4
  /\ Cardinality(DOMAIN last.retI["b"].containers) = 2
  /\ Exists(engine, StrayNoNet)
  /\ Exists(engine, StrayNoLabel)

\* the Instance value the aggregator was last applied to
Aggregated == last.retI["a"]
RunningIn(inst) ==
  {id \in DOMAIN inst.containers : inst.containers[id].container_status = "Running"}

\* C11: the aggregator applied to an empty collection of containers returns
\* Unknown
C11_EmptyIsUnknown ==
  (last.fn = "get_status" /\ DOMAIN Aggregated.containers = {}) =>
     Aggregated.status = "Unknown"

\* C12: on a non-empty collection the aggregator returns Running iff every
\* status is Running, PartiallyRunning iff some but not all are, Stopped iff
\* none is, and no other value
C12_ThreeWayPartition ==
  (last.fn = "get_status" /\ DOMAIN Aggregated.containers # {}) =>
     LET all == DOMAIN Aggregated.containers
         run == RunningIn(Aggregated)
     IN /\ Aggregated.status \in {"Running", "PartiallyRunning", "Stopped"}
        /\ (Aggregated.status = "Running") <=> (run = all)
        /\ (Aggregated.status = "PartiallyRunning") <=> (run # {} /\ run # all)
        /\ (Aggregated.status = "Stopped") <=> (run = {})

C12_Witness ==
  /\ last.fn = "get_status"
  /\ Aggregated.status = "PartiallyRunning"
  /\ \E id \in DOMAIN Aggregated.containers :
        Aggregated.containers[id].container_status = "Paused"
  /\ \E id \in DOMAIN Aggregated.containers :
        Aggregated.containers[id].container_status = "Deleted"

\* C13: every Instance value the core returns has the status the aggregator
\* gives for the container statuses carried in that same value
C13_StatusIsDerived ==
  (last.fn \in {"new", "list_all", "handle_instance", "handle_all_instances"}
     /\ last.ok) =>
    \A u \in DOMAIN last.retI :
       last.retI[u].status = Instance_get_status(last.retI[u].containers)

\* the instance labels that have a member container in the engine
LabelsInEngine == {u \in Labels : \E id \in Ids : MemberOf(id, u)}

\* C14: a listing over instances of which one has no readable metadata file
\* returns without error or panic and holds exactly the instances whose
\* metadata is readable
C14_ListingSkipsBroken ==
  last.fn = "list_all" =>
    /\ last.ok
    /\ ~last.panic
    /\ DOMAIN last.retI = {u \in LabelsInEngine : u \in files}

\* C18: when a single-instance delete has returned successfully, no member
\* container of the instance is left and its directory has been removed
C18_DeletePurgesInstance ==
  (last.fn = "delete_instance" /\ last.ok) =>
    /\ \A id \in Ids : ~MemberOf(id, last.target[1])
    /\ last.target[1] \notin files

\* C19: delete-all invokes purge at most once, with selector All, only after
\* the container deletion of every instance has completed; when a deletion
\* has failed purge is not invoked and the directories are left as they were
FailedCall(l) == \E id \in Ids : \E i \in 1..Len(l.calls[id]) : ~l.calls[id][i][2]
C20_PurgeReinvokable ==
  (last.fn = "purge_instances" /\ ~last.purges[1][2]) => last.ok

\* C16: a lifecycle operation on an instance id that no listed instance has
\* returns an error, does not crash and issues no engine call
C16_UnknownInstance ==
  (last.fn = "handle_instance" /\ last.target[1] \notin LabelsInEngine
     /\ last.visited = {}) =>
    /\ ~last.ok
    /\ ~last.panic
    /\ last.retI = EmptyMap
    /\ \A id \in Ids : last.calls[id] = <<>>

C16_Witness ==
  /\ last.fn = "handle_instance"
  /\ last.target[1] = "b"
  /\ last.op = "Start"
  /\ LabelsInEngine = {"a"}
  /\ ~last.ok

\* C17: get-status of a container id the engine does not know returns the
\* status NotFound as a successful result
C17_UnknownIdIsNotFound ==
  (last.fn \in {"container_get_status", "instance_get_status"}
     /\ ~Exists(engine, last.target)) =>
    /\ last.ok
    /\ last.retC.container_status = "NotFound"

\* C15: when create-network-if-not-exists is called twice in sequence with
\* the same name and the first call created the network, the second call
\* issues no create call and returns success
C15_SecondCreateSkips ==
  (/\ last.fn \in {"create_network_if_not_exists", "svc_create_network_if_not_exists"}
   /\ prev.fn = last.fn
   /\ prev.target = last.target
   /\ prev.net = <<<<"create_network", TRUE>>>>) =>
    /\ last.net = <<>>
    /\ last.ok

\* C21: after a purge has returned successfully the network that the purged
\* instances are attached to is no longer in the engine and the purged
\* directory is gone
C21_PurgeRemovesNetwork ==
  (last.fn = "purge_instances" /\ last.ok) =>
    /\ (IF last.target[1] = "All" THEN INSTANCES_ROOT ELSE last.target[1]) \notin files
    /\ NETWORK_NAME \notin networks

\* C22: a restart of an existing container through the container adapter
\* issues exactly one restart call to the engine whatever status was fetched
C22_RestartAlwaysIssued ==
  (last.fn = "handle_container" /\ last.op = "Restart" /\ Visited(last.target)) =>
    /\ Len(last.calls[last.target]) = 1
    /\ last.calls[last.target][1][1] = "restart"

C22_Witness ==
  /\ last.fn = "handle_container"
  /\ last.op = "Restart"
  /\ last.fetched[last.target] = "Stopped"
  /\ last.calls[last.target] = <<<<"restart", TRUE>>>>
  /\ engine[last.target].state = "running"

\* C23: when a start, stop or restart of an instance has returned success,
\* every member container of the instance was processed, and after a
\* successful stop no member container is running in the engine
C23_SuccessCoversMembers ==
  (/\ last.fn = "handle_instance"
   /\ last.ok
   /\ last.op \in {"Start", "Stop", "Restart"}) =>
    \A id \in Ids : MemberOf(id, last.target[1]) =>
      /\ Visited(id)
      /\ last.op = "Stop" => engine[id].state # "running"

CallFailed(task, id) ==
  \E i \in 1..Len(task.calls[id]) : ~task.calls[id][i][2]
\* the task has changed container id in the engine
CallDone(task, id) ==
  \E i \in 1..Len(task.calls[id]) : task.calls[id][i][2]

\* C25: two concurrent lifecycle operations on one instance interleave their
\* daemon calls without coordination; when no call is failed by the daemon
\* itself, a call of one operation fails only on a container that the other
\* operation has changed in the engine
C25_FailureOnlyFromInterleaving ==
  \A id \in Ids :
    /\ CallFailed(last, id) => CallDone(prev, id)
    /\ CallFailed(prev, id) => CallDone(last, id)

\* a stop is issued for a container the concurrent delete has removed
C25_Witness ==
  /\ last.op = "Stop" /\ prev.op = "Delete"
  /\ ~last.ok
  /\ \E id \in MembersOf("a") :
       /\ last.fetched[id] = "Running"
       /\ last.calls[id] = <<<<"stop", FALSE>>>>
       /\ prev.calls[id] = <<<<"stop", TRUE>>, <<"remove", TRUE>>>>
       /\ ~Exists(engine, id)

\* C26: the ports a Create labels its containers with were free when the
\* Create ran, that is held by no running container; nothing else constrains
\* them, so the two ports of one instance, or the ports of two instances, may
\* be equal
C26_PortFreeAtCall ==
  [][last'.fn = "new" =>
       \A id \in Ids : (Exists(engine', id) /\ ~Exists(engine, id)) =>
         /\ parse_port(engine'[id].nginx_port) \notin HostPorts(engine)
         /\ parse_port(engine'[id].adminer_port) \notin HostPorts(engine)]_vars

\* instance b has one port for both services, and it is the reverse proxy
\* port of instance a
C26_Witness ==
  /\ last.fn = "new" /\ last.ok /\ last.target[1] = "b"
  /\ last.retI["b"].nginx_port = last.retI["b"].adminer_port
  /\ Exists(engine, EngineId("a", "nginx"))
  /\ engine[EngineId("a", "nginx")].nginx_port = engine[EngineId("b", "nginx")].nginx_port

\* C27: a container that a successful delete of its instance has removed is
\* reported in the result with the status Deleted, never with NotFound
C27_RemovedIsDeleted ==
  (last.fn = "svc_handle_instance" /\ last.op = "Delete" /\ last.ok) =>
    \A id \in Ids : "remove" \in CallNames(id) =>
      /\ id \in DOMAIN last.retI[last.target[1]].containers
      /\ last.retI[last.target[1]].containers[id].container_status = "Deleted"

\* C28: a container operation on an existing container, none of whose daemon
\* calls is rejected, succeeds whatever the container's labels or config are,
\* and reports the role its image label names, or Unknown
C28_RoleInferenceNeverFails ==
  (/\ last.fn = "handle_container"
   /\ Exists(engine, last.target) \/ "remove" \in CallNames(last.target)
   /\ \A i \in 1..Len(last.calls[last.target]) : last.calls[last.target][i][2]) =>
    /\ last.ok
    /\ Exists(engine, last.target) =>
         last.retC.container_image = ContainerImage_from_str(engine[last.target].image)

\* C29: every container a Create has created carries the labels instance,
\* nginx_port and adminer_port with the values of that Create, the same on
\* all of them and equal to the returned Instance's values, next to its own
\* image label
C29_SharedLabels ==
  last.fn = "new" =>
    LET l  == last.target[1]
        made == {id \in MembersOf(l) : <<"create", TRUE>> \in
                   {last.calls[id][i] : i \in 1..Len(last.calls[id])}}
    IN /\ \A id \in made :
            /\ engine[id].instance = l
            /\ \E r \in RoleSet : id = EngineId(l, r) /\ engine[id].image = r
       /\ \A x, y \in made :
            /\ engine[x].nginx_port = engine[y].nginx_port
            /\ engine[x].adminer_port = engine[y].adminer_port
       /\ last.ok =>
            /\ made = MembersOf(l)
            /\ \A id \in made :
                 /\ engine[id].nginx_port = to_string(last.retI[l].nginx_port)
                 /\ engine[id].adminer_port = to_string(last.retI[l].adminer_port)

C29_Witness ==
  /\ last.fn = "new" /\ last.ok /\ last.target[1] = "a"
  /\ last.retI["a"].nginx_port = MaxPort
  /\ last.retI["a"].adminer_port = MaxPort - 1
  /\ \A id \in MembersOf("a") : /\ engine[id].nginx_port = to_string(MaxPort)
                                /\ engine[id].adminer_port = to_string(MaxPort - 1)

\* the container of the given image is created for the instance of prev
Creates(image) ==
  /\ last.fn \in {"configure_container", "InstanceContainer::new"}
  /\ last.target = <<prev.target[1], image>>

\* C30: the default WORDPRESS_DB_HOST and ADMINER_DEFAULT_SERVER of an
\* instance are the name under which its Database container is created, and
\* the names given to the reverse-proxy config are the names under which its
\* Application and AdminTool containers are created
C30_NamesAgree ==
  /\ (prev.fn = "initialize_env_vars" /\ prev.op = "defaults" /\ Creates("MySQL")) =>
       /\ prev.env.wordpress["WORDPRESS_DB_HOST"] = last.names
       /\ prev.env.adminer["ADMINER_DEFAULT_SERVER"] = last.names
  /\ (prev.fn = "configure_nginx_container" /\ Creates("Wordpress")) =>
       prev.names.wordpress_name = last.names
  /\ (prev.fn = "configure_nginx_container" /\ Creates("Adminer")) =>
       prev.names.adminer_name = last.names

\* C31: the merge of a default map and an override map holds exactly one
\* entry KEY=VALUE for each key of either map, with the override's value when
\* the key is overridden and the default's value otherwise
C31_MergeOverridesWin ==
  last.fn = "merge_env_vars" =>
    LET D   == last.env.defaults
        O   == last.env.overrides
        out == last.env.out
    IN /\ Len(out) = Cardinality(DOMAIN D \cup DOMAIN O)
       /\ \A k \in DOMAIN D \cup DOMAIN O :
            /\ Cardinality({i \in 1..Len(out) : out[i][1] = k}) = 1
            /\ <<k, "=", IF k \in DOMAIN O THEN O[k] ELSE D[k]>>
                 \in {out[i] : i \in 1..Len(out)}
       /\ \A i \in 1..Len(out) : out[i][1] \in DOMAIN D \cup DOMAIN O

C31_Witness ==
  /\ last.fn = "merge_env_vars"
  /\ last.env.defaults = [WORDPRESS_DB_HOST |-> <<"0">>, WORDPRESS_DEBUG |-> <<"0">>]
  /\ DOMAIN last.env.overrides = {"WORDPRESS_DB_HOST"}
  /\ last.env.out = << <<"WORDPRESS_DB_HOST", "=", <<"db">> >>,
                       <<"WORDPRESS_DEBUG", "=", <<"0">> >> >>

\* C32: the InstanceData read back for an instance right after it was written
\* for that instance is the record that was written, field by field, and the
\* reader's path is the writer's path
C32_DataRoundTrip ==
  /\ (/\ prev.fn = "parse_instance_data"
      /\ last.fn = "read_instance_data_from_toml"
      /\ last.target = prev.target) =>
       last.ok /\ last.names = prev.names /\ last.env = prev.env
  /\ (/\ prev.fn = "Instance::parse"
      /\ last.fn = "Instance::default"
      /\ last.target = prev.target) =>
       last.ok /\ last.names = prev.names /\ last.env = prev.env

\* the names of the daemon calls logged for container id, in order
IssuedFor(id) == [i \in 1..Len(last.calls[id]) |-> last.calls[id][i][1]]
\* s is t, or what is left of t when a call failed
CutOf(s, t) ==
  /\ Len(s) <= Len(t)
  /\ \A i \in 1..Len(s) : s[i] = t[i]
  /\ Len(s) < Len(t) => (s # <<>> /\ ~last.calls[last.target][Len(s)][2])

\* C33: for start, stop, restart and delete and every fetched status, the
\* Container Adapter issues for a container the daemon calls that the
\* instance-level dispatcher issues for a member container with that status
C33_OnePolicy ==
  (/\ last.fn = "handle_container"
   /\ last.op \in {"Start", "Stop", "Restart", "Delete"}
   /\ Visited(last.target)) =>
    CutOf(IssuedFor(last.target),
          instance_calls(last.op, last.fetched[last.target]))

\* the positions of step x in the statement log of the last Create
StepsAt(x) == {i \in 1..Len(last.steps) : last.steps[i] = x}

\* C34: within one Create the network step comes before every container
\* create, both ports are allocated before the label set is built and before
\* the reverse-proxy config is generated, and that config is generated before
\* the reverse proxy container is created; when the network step fails no
\* port is allocated and no container is created
C34_CreateOrder ==
  last.fn = "new" =>
    /\ \A r \in RoleSet : \A i \in StepsAt(r) :
          \E j \in StepsAt("create_network") : j < i
    /\ \A i \in StepsAt("labels") \cup StepsAt("generate_nginx_config") :
          Cardinality({j \in StepsAt("find_free_port") : j < i}) = 2
    /\ \A i \in StepsAt("nginx") : \E j \in StepsAt("generate_nginx_config") : j < i
    /\ StepsAt("create_network_failed") # {} =>
          /\ StepsAt("find_free_port") = {}
          /\ \A r \in RoleSet : StepsAt(r) = {}
          /\ last.calls = NoCalls
          /\ ~last.ok

C34_Witness ==
  /\ last.fn = "new" /\ last.ok
  /\ last.steps = <<"create_network">> \o steps_before_loop \o Roles
  /\ NETWORK_NAME \in networks

\* a Create whose network step failed
C34_NetworkFailed ==
  /\ last.fn = "new" /\ ~last.ok
  /\ last.steps = <<"create_network_failed">>

\* C35: a container created for an instance right after Create's network
\* step is attached to the network that step created, <prefix>-<label>, and
\* this is the network name persisted in the InstanceData of the instance
C35_OneNetworkName ==
  (/\ prev.fn = "create_network_if_not_exists" /\ prev.ok
   /\ last.op = "Attach"
   /\ prev.target = prefixed_name(NETWORK_NAME, last.target)) =>
    /\ last.names = prev.target
    /\ last.names \in networks
    /\ last.names = instance_data(initialize_env_vars(last.target, EmptyMap),
                                  MaxPort, MaxPort, last.target).network_name

\* the network step of the task is over
StepOver(task) == task.fn # "none" /\ task.todo = <<>>

\* C36: when the network steps of two concurrent Creates that need the same
\* network name are both over, at most one create-network call for the name
\* has reached the engine and both steps have succeeded
C36_OneCreateNetworkCall ==
  (StepOver(last) /\ StepOver(prev) /\ last.target = prev.target) =>
    /\ Len(last.net) + Len(prev.net) <= 1
    /\ last.ok /\ prev.ok

\* the ContainerStatus that stands for a state of the daemon
StatusOf(state) ==
  CASE state = "running"    -> "Running"
    [] state = "exited"     -> "Stopped"
    [] state = "paused"     -> "Paused"
    [] state = "dead"       -> "Dead"
    [] state = "restarting" -> "Restarting"
    [] OTHER                -> "Unknown"

\* C37: get-status, the listing and the per-container operation path all
\* report for a container the same ContainerStatus: running is Running,
\* exited is Stopped, paused is Paused, dead is Dead, restarting is
\* Restarting, any other state is Unknown
C37_OneStatusMapping ==
  /\ (last.fn \in {"container_get_status", "instance_get_status",
                   "fetch_container_status"} /\ last.ok) =>
        last.retC.container_status = StatusOf(engine[last.target].state)
  /\ (last.fn = "list_all" /\ last.ok) =>
        \A u \in DOMAIN last.retI : \A id \in DOMAIN last.retI[u].containers :
           last.retI[u].containers[id].container_status = StatusOf(engine[id].state)

\* C38: list_all, list_running and the Inspect operation leave the engine
\* as it is: no container and no network is created, started, stopped,
\* restarted or removed by them
C38_ReadOnly ==
  [][(last'.fn # "none" /\ last'.op \in {"List", "Inspect"}) =>
        (engine' = engine /\ networks' = networks)]_vars

C38_Witness ==
  /\ last.fn = "handle_instance" /\ last.op = "Inspect" /\ last.ok
  /\ \A id \in MembersOf("a") : "inspect" \in CallNames(id)

\* x is the result of a delete of instance a that has succeeded
DeletedA(x) ==
  /\ x.fn = "handle_instance" /\ x.op = "Delete" /\ x.ok
  /\ x.target = <<"a", "*">> /\ x.visited = {"a"}

\* C39: after a successful delete of an instance that had a container the
\* returned Instance holds no container, a later list_all does not hold
\* the instance and holds every other instance with its containers, and a
\* later lifecycle operation on the instance answers not found
C39_DeleteIsFinal ==
  [][/\ DeletedA(last) => DOMAIN last.retI["a"].containers = {}
     /\ (DeletedA(prev) /\ last'.fn = "list_all") =>
           /\ "a" \notin DOMAIN last'.retI
           /\ "b" \in DOMAIN last'.retI
           /\ DOMAIN last'.retI["b"].containers = MembersOf("b")
     /\ (DeletedA(prev) /\ last'.fn = "handle_instance") =>
           (~last'.ok /\ last'.visited = {})]_vars

\* the containers the listing in last holds under instance u
ListedUnder(u) ==
  IF u \notin DOMAIN last.retI THEN {}
  ELSE IF last.fn = "list_all" THEN DOMAIN last.retI[u].containers
  ELSE {last.retI[u].container_ids[i] : i \in DOMAIN last.retI[u].container_ids}

\* C40: a listing during which the inspect of one container fails returns
\* successfully, leaves out that container only, and holds every other
\* container of the network that has an instance label under its instance
C40_ListingSkipsOne ==
  (last.op = "List" /\ last.target \in MemberIds) =>
     /\ last.ok
     /\ \A u \in Labels :
           ListedUnder(u) = {id \in MembersOf(u) : Exists(engine, id)} \ {last.target}
====
